---- MODULE Spec2Model ----
(***************************************************************************)
(* Model of the custom linear scale (LinearScale.vue, explicit weighted    *)
(* tick variant) together with the input parsing of the hosting app, and   *)
(* of the scales and tick marks of the two earlier variants of the file.   *)
(*                                                                         *)
(* Units.  Domain values (tick values, the indicator value) are integers   *)
(* counted in tenths of a domain unit: 5 stands for 0.5, -100 for -10.     *)
(* Weights are integers counted in thousandths: 300 stands for 0.3.        *)
(* Pixel coordinates are exact rationals <<n, d>> in lowest terms, d > 0;  *)
(* the code computes them in IEEE doubles, the model in exact arithmetic.  *)
(***************************************************************************)
EXTENDS Integers, Sequences, FiniteSets, TLC

VARIABLES
    majorTicksInput,        \* App: text of the major tick input, as tokens
    weightsInput,           \* App: text of the weights input, as tokens
    minorTicksInput,        \* App: text of the minor tick input, as tokens
    intermediateTicksInput, \* App: text of the intermediate tick input
    majorTicksError,        \* App: error flag refs
    weightsError,
    weightsSumError,
    orientation,            \* App: orientation ref, bound to the prop
    scalePadding,           \* App: scalePadding ref, bound to the prop
    currentValue,           \* App: currentValue ref, bound to props.value
    confidenceRangePercent, \* App: refs bound to the props of the same name
    confidenceBoxCrossDimension,
    indicatorSize,
    indicatorColor,
    indicatorOpacity,
    indicatorDistancePercent,
    isSimulationRunning,    \* App: isSimulationRunning ref
    simulationInterval,     \* App: `simulationInterval`, 0 for null
    activeTimers,           \* browser: ids of the intervals not yet cleared
    timersCreated,          \* browser: number of setInterval calls so far
    timerDelays,            \* browser: the delay each setInterval call was given
    simulationFrequency,    \* App: simulationFrequency ref, in Hz
    appMounted,             \* App: the hosting view has not been unmounted
    lifecycle,              \* LinearScale: "setup", "mounted" or "unmounted"
    svgRef,                 \* LinearScale: svgRef.value is an element
    observing,              \* LinearScale: resizeObserver observes the container
    svgWidth,               \* LinearScale: svgWidth ref
    svgHeight,              \* LinearScale: svgHeight ref
    scale,                  \* LinearScale: module-level `scale`
    ticks,                  \* LinearScale: the rendered ".tick" groups
    indicatorPos,           \* LinearScale: translate of the indicator
    indicatorPoints,        \* LinearScale: points of the indicator polygon
    indicatorStyle,         \* LinearScale: fill and fill-opacity of the indicator
    confidenceBox,          \* LinearScale: x, y, width, height of the box
    buildErrors,            \* LinearScale: did the last build console.error
    handlerLog,             \* the functions the last handler called, in order
    variantProps,           \* earlier variants: their props and extent refs
    variantPos,             \* earlier variants: the pixel of the indicator
    variantTicks            \* second variant: the tick lists it derived

\* The texts and flags of the hosting view.
inputVars == <<majorTicksInput, weightsInput, minorTicksInput,
               intermediateTicksInput, majorTicksError, weightsError,
               weightsSumError>>
\* The refs bound to the props that only the geometry and the indicator read.
geometryProps == <<confidenceRangePercent, confidenceBoxCrossDimension,
                   indicatorSize, indicatorColor, indicatorOpacity,
                   indicatorDistancePercent>>
\* The simulation timer of the hosting view.
simVars == <<isSimulationRunning, simulationInterval, activeTimers,
             timersCreated, timerDelays, simulationFrequency, appMounted>>
\* The component's lifecycle and its resize subscription.
lifeVars == <<lifecycle, svgRef, observing>>
\* What drawScale creates.
drawnVars == <<scale, ticks, buildErrors, indicatorPoints>>
\* What updateIndicatorAndConfidence sets.
updatedVars == <<indicatorPos, indicatorStyle, confidenceBox>>

\* The two earlier variants of the component.
variantVars == <<variantProps, variantPos, variantTicks>>

vars == <<inputVars, orientation, scalePadding, currentValue, geometryProps,
          simVars, lifeVars, svgWidth, svgHeight, drawnVars, updatedVars,
          handlerLog, variantVars>>

----------------------------------------------------------------------------
(* Units and bounds *)

\* Domain values are counted in 1/ValueDen of a domain unit.
ValueDen == 10
\* Weights are counted in 1/WeightDen.
WeightDen == 1000
\* Math.abs(sum - 1.0) > 0.001, in weight units.
SumTolerance == 1

\* Longest major tick input the edits generate (tokens).
MaxTicks == 3
\* The scale is probed at 2.5 * k for k in -MaxProbe..MaxProbe.
MaxProbe == 6
\* Most entries one resize notification carries.
MaxEntries == 2
\* Most intervals the simulation creates in one run of the model.
MaxTimers == 3

----------------------------------------------------------------------------
(* Exact rational arithmetic for pixel coordinates *)

Abs(x) == IF x < 0 THEN -x ELSE x

RECURSIVE Gcd(_, _)
Gcd(a, b) == IF b = 0 THEN a ELSE Gcd(b, a % b)

\* n/d in lowest terms with a positive denominator (d # 0).
Rat(n, d) ==
    LET g == Gcd(Abs(n), Abs(d))
        s == IF d < 0 THEN -1 ELSE 1
    IN  <<(s * n) \div g, (s * d) \div g>>

RInt(n) == <<n, 1>>
RAdd(a, b) == Rat(a[1] * b[2] + b[1] * a[2], a[2] * b[2])
RSub(a, b) == Rat(a[1] * b[2] - b[1] * a[2], a[2] * b[2])
RMul(a, b) == Rat(a[1] * b[1], a[2] * b[2])
RLe(a, b) == a[1] * b[2] <= b[1] * a[2]
RLt(a, b) == a[1] * b[2] < b[1] * a[2]

----------------------------------------------------------------------------
(* Sequence helpers standing for the JavaScript array built-ins used *)

Range(s) == {s[i] : i \in DOMAIN s}

\* Array.prototype.includes
Includes(s, x) == \E i \in DOMAIN s : s[i] = x

\* arr.reduce((acc, val) => acc + val, 0)
RECURSIVE SumSeq(_)
SumSeq(s) == IF s = <<>> THEN 0 ELSE s[1] + SumSeq(Tail(s))

\* Insert x into the ascending sequence s, after the elements equal to it.
RECURSIVE InsertSorted(_, _)
InsertSorted(s, x) ==
    IF s = <<>> THEN <<x>>
    ELSE IF x < s[1] THEN <<x>> \o s
    ELSE <<s[1]>> \o InsertSorted(Tail(s), x)

\* [...arr].sort((a, b) => a - b): a stable ascending numeric sort.
RECURSIVE SortAsc(_)
SortAsc(s) ==
    IF s = <<>> THEN <<>>
    ELSE InsertSorted(SortAsc(SubSeq(s, 1, Len(s) - 1)), s[Len(s)])

\* [...new Set(arr)]: the distinct elements in order of first occurrence;
\* seen holds the elements kept so far.
RECURSIVE DedupeFrom(_, _)
DedupeFrom(s, seen) ==
    IF s = <<>> THEN seen
    ELSE DedupeFrom(Tail(s), IF Includes(seen, s[1]) THEN seen
                             ELSE Append(seen, s[1]))

Dedupe(s) == DedupeFrom(s, <<>>)

\* arr.every((val, i, a) => i === 0 || val >= a[i - 1])
NonDecreasing(s) == \A i \in DOMAIN s : i = 1 \/ s[i] >= s[i - 1]

----------------------------------------------------------------------------
(* d3.scaleLinear, as the component uses it: two-point domain and range,   *)
(* no clamping                                                             *)

\* d3's interpolateNumber at t = n / d: r0 * (1 - t) + r1 * t, as one fraction.
interpolateNumber(r0, r1, n, d) ==
    Rat(r0[1] * r1[2] * (d - n) + r1[1] * r0[2] * n, r0[2] * r1[2] * d)

\* d3.scaleLinear().domain([d0, d1]).range([r0, r1])(x).  d3 normalises x to
\* t = (x - d0) / (d1 - d0) (the constant 0.5 for an empty domain, and with
\* domain and range both reversed for a descending domain) and returns
\* r0 * (1 - t) + r1 * t.  x is not clamped to the domain.
d3ScaleLinear(d0, d1, r0, r1, x) ==
    IF d1 = d0 THEN interpolateNumber(r0, r1, 1, 2)
    ELSE IF d1 < d0 THEN interpolateNumber(r1, r0, x - d1, d0 - d1)
    ELSE interpolateNumber(r0, r1, x - d0, d1 - d0)

----------------------------------------------------------------------------
(* LinearScale.vue: createCustomScale(totalDimension, majorTicks, weights, *)
(* orientation, padding)                                                   *)

\* The fallback's defaultDomain = [-10, 10].
defaultDomain == <<-10 * ValueDen, 10 * ValueDen>>

\* The guard of the fallback branch.
InvalidForScale(majorTicks, weights) ==
    Len(majorTicks) < 2 \/ Len(weights) # Len(majorTicks) - 1

\* The plain linear scale returned for invalid input.  It is a bare d3 scale:
\* it has no effectiveLength property.
FallbackScale(totalDimension, orientation_, padding) ==
    [kind |-> "linear",
     domain |-> defaultDomain,
     range |-> IF orientation_ = "horizontal"
               THEN <<RInt(padding), RInt(totalDimension - padding)>>
               ELSE <<RInt(totalDimension - padding), RInt(padding)>>,
     sortedMajorTicks |-> <<>>,
     rangePoints |-> <<>>,
     effectiveLength |-> <<>>]

startPx_NoMirror(totalDimension, orientation_, padding) ==
    padding

startPx(totalDimension, orientation_, padding) ==
    IF orientation_ = "horizontal" THEN padding ELSE totalDimension - padding

endPx(totalDimension, orientation_, padding) ==
    IF orientation_ = "horizontal" THEN totalDimension - padding ELSE padding

effectiveLengthOf(totalDimension, orientation_, padding) ==
    IF orientation_ = "horizontal"
    THEN endPx(totalDimension, orientation_, padding)
         - startPx(totalDimension, orientation_, padding)
    ELSE startPx(totalDimension, orientation_, padding)
         - endPx(totalDimension, orientation_, padding)

\* Mutant of segmentLengthPx: every segment gets an equal share of the length.
segmentLengthPx_EqualShare(weights, i, effLen) == Rat(effLen, Len(weights))

\* const segmentLengthPx = weights[i] * effectiveLength
segmentLengthPx(weights, i, effLen) == Rat(weights[i] * effLen, WeightDen)

\* rangePoints[key] = px on a JavaScript object: a later write to the same key
\* replaces the earlier one.
PutRangePoint(rp, key, px) ==
    [k \in (DOMAIN rp) \cup {key} |-> IF k = key THEN px ELSE rp[k]]

\* The loop over the segments, from segment i on, with currentPixelPosition.
RECURSIVE RangePointsLoop(_, _, _, _, _, _, _)
RangePointsLoop(i, currentPixelPosition, rp, sorted, weights, orientation_, effLen) ==
    IF i > Len(sorted) - 1 THEN rp
    ELSE LET seg == segmentLengthPx(weights, i, effLen)
             nxt == IF orientation_ = "horizontal"
                    THEN RAdd(currentPixelPosition, seg)
                    ELSE RSub(currentPixelPosition, seg)
         IN  RangePointsLoop(i + 1, nxt, PutRangePoint(rp, sorted[i + 1], nxt),
                             sorted, weights, orientation_, effLen)

\* customScale.range()
customRange(sorted, rp, orientation_) ==
    IF orientation_ = "horizontal"
    THEN <<rp[sorted[1]], rp[sorted[Len(sorted)]]>>
    ELSE <<rp[sorted[Len(sorted)]], rp[sorted[1]]>>

createCustomScale(totalDimension, majorTicks, weights, orientation_, padding) ==
    IF InvalidForScale(majorTicks, weights)
    THEN FallbackScale(totalDimension, orientation_, padding)
    ELSE LET sorted == SortAsc(majorTicks)
             start == startPx(totalDimension, orientation_, padding)
             effLen == effectiveLengthOf(totalDimension, orientation_, padding)
             first == sorted[1] :> RInt(start)
             rp == RangePointsLoop(1, RInt(start), first, sorted, weights,
                                   orientation_, effLen)
         IN  [kind |-> "custom",
              domain |-> <<sorted[1], sorted[Len(sorted)]>>,
              range |-> customRange(sorted, rp, orientation_),
              sortedMajorTicks |-> sorted,
              rangePoints |-> rp,
              effectiveLength |-> <<effLen>>]

\* Mutant of InSegment: the segment bounds are compared strictly.
InSegment_Strict(sorted, i, value) ==
    \/ value > sorted[i] /\ value < sorted[i + 1]
    \/ value < sorted[i] /\ value > sorted[i + 1]

\* The condition under which customScale's loop returns from segment i.
InSegment(sorted, i, value) ==
    \/ value >= sorted[i] /\ value <= sorted[i + 1]
    \/ value <= sorted[i] /\ value >= sorted[i + 1]

\* The return inside the loop: interpolation within segment i.
SegmentValue(sc, i, value) ==
    LET sorted == sc.sortedMajorTicks
    IN  d3ScaleLinear(sorted[i], sorted[i + 1],
                      sc.rangePoints[sorted[i]], sc.rangePoints[sorted[i + 1]],
                      value)

\* The statements after the loop: the value lies in no segment.
OutsideValue(sc, value) ==
    LET sorted == sc.sortedMajorTicks
        firstMajorTick == sorted[1]
        lastMajorTick == sorted[Len(sorted)]
    IN  d3ScaleLinear(firstMajorTick, lastMajorTick,
                      sc.rangePoints[firstMajorTick],
                      sc.rangePoints[lastMajorTick], value)

\* customScale(value): the first segment that holds the value decides.
customScale(sc, value) ==
    LET sorted == sc.sortedMajorTicks
        hits == {i \in 1 .. Len(sorted) - 1 : InSegment(sorted, i, value)}
    IN  IF hits # {}
        THEN SegmentValue(sc, CHOOSE i \in hits : \A j \in hits : i <= j, value)
        ELSE OutsideValue(sc, value)

\* scale(value) for whichever scale createCustomScale returned.
scaleApply(sc, value) ==
    IF sc.kind = "linear"
    THEN d3ScaleLinear(sc.domain[1], sc.domain[2], sc.range[1], sc.range[2], value)
    ELSE customScale(sc, value)

----------------------------------------------------------------------------
(* LinearScale.vue: drawScale's tick marks and updateIndicatorAndConfidence *)

\* Mutant of allTickValues: the lists are joined and sorted without the Set.
allTickValues_NoSet(majorTicks, minorTicks, intermediateTicks) ==
    SortAsc(majorTicks \o minorTicks \o intermediateTicks)

\* [...new Set([...majorTicks, ...minorTicks, ...intermediateTicks])].sort(...)
allTickValues(majorTicks, minorTicks, intermediateTicks) ==
    SortAsc(Dedupe(majorTicks \o minorTicks \o intermediateTicks))

\* Mutant of tickClass: the chain tests the lists in the opposite order.
tickClass_MinorFirst(d, majorTicks, minorTicks, intermediateTicks) ==
    IF Includes(minorTicks, d) THEN "minor"
    ELSE IF Includes(intermediateTicks, d) THEN "intermediate"
    ELSE IF Includes(majorTicks, d) THEN "major"
    ELSE "other"

\* The if / else-if chain of the .each callback: the first list that includes
\* the value decides tickLength and showText.
tickClass(d, majorTicks, minorTicks, intermediateTicks) ==
    IF Includes(majorTicks, d) THEN "major"
    ELSE IF Includes(intermediateTicks, d) THEN "intermediate"
    ELSE IF Includes(minorTicks, d) THEN "minor"
    ELSE "other"

tickLength(class) ==
    IF class = "major" THEN 20
    ELSE IF class = "intermediate" THEN 10
    ELSE 5

showText(class) == class = "major"

\* .attr("stroke-width", showText ? 2 : 1)
strokeWidth(class) == IF showText(class) THEN 2 ELSE 1

\* One ".tick" group: its translate along the scale, its line and its label.
tickGroupOf(d, pos, class) ==
    [value |-> d,
     pos |-> pos,
     class |-> class,
     tickLength |-> tickLength(class),
     strokeWidth |-> strokeWidth(class),
     label |-> showText(class)]

tickGroup(sc, d, majorTicks, minorTicks, intermediateTicks) ==
    tickGroupOf(d, scaleApply(sc, d),
                tickClass(d, majorTicks, minorTicks, intermediateTicks))

renderTicks(sc, majorTicks, minorTicks, intermediateTicks) ==
    LET all == allTickValues(majorTicks, minorTicks, intermediateTicks)
    IN  [i \in 1 .. Len(all) |->
            tickGroup(sc, all[i], majorTicks, minorTicks, intermediateTicks)]

----------------------------------------------------------------------------
(* App: the text inputs and their parsing *)

\* One comma-separated piece of an input text: a number, or text that
\* parseFloat turns into NaN.
Num(n) == [num |-> TRUE, val |-> n]
Garbage == [num |-> FALSE, val |-> 0]
NotNaN(tok) == tok.num

\* input.split(',').map(s => parseFloat(s.trim())).filter(n => !isNaN(n))
parseNumberArray(input) ==
    LET kept == SelectSeq(input, NotNaN)
    IN  [i \in 1 .. Len(kept) |-> kept[i].val]

\* The condition under which parsedMajorTicks sets majorTicksError.
MajorTicksRejected(parsed) == Len(parsed) < 2 \/ ~NonDecreasing(parsed)

parsedMajorTicks(input) ==
    LET parsed == parseNumberArray(input)
    IN  IF MajorTicksRejected(parsed) THEN <<>> ELSE parsed

\* The condition under which parsedWeights sets weightsError.
WeightCountMismatch(parsed, major) ==
    Len(major) > 0 /\ Len(parsed) # Len(major) - 1

\* Math.abs(sum - 1.0) > 0.001
WeightSumOff(parsed) == Abs(SumSeq(parsed) - WeightDen) > SumTolerance

parsedWeights(input, major) ==
    LET parsed == parseNumberArray(input)
    IN  IF WeightCountMismatch(parsed, major) THEN <<>> ELSE parsed

\* weightsError after parsedWeights has run: parseNumberArray clears it, the
\* count check sets it.
weightsErrorAfter(input, major) ==
    WeightCountMismatch(parseNumberArray(input), major)

\* weightsSumError after parsedWeights has run: the early return of the count
\* check leaves the flag as it was.
weightsSumErrorAfter(input, major, before) ==
    LET parsed == parseNumberArray(input)
    IN  IF WeightCountMismatch(parsed, major) THEN before
        ELSE WeightSumOff(parsed)

----------------------------------------------------------------------------
(* The props the app binds to the component *)

propMajorTicks == parsedMajorTicks(majorTicksInput)
propWeights == parsedWeights(weightsInput, propMajorTicks)
propMinorTicks == parseNumberArray(minorTicksInput)
propIntermediateTicks == parseNumberArray(intermediateTicksInput)

----------------------------------------------------------------------------
(* The inputs the model draws from *)

\* All token sequences of length 1..n over the token set toks.
RECURSIVE TokenSeqs(_, _)
TokenSeqs(toks, n) ==
    IF n = 0 THEN {}
    ELSE LET shorter == TokenSeqs(toks, n - 1)
         IN  {<<t>> : t \in toks} \cup shorter
             \cup {Append(s, t) : s \in shorter, t \in toks}

ToTokens(nums) == [i \in 1 .. Len(nums) |-> Num(nums[i])]

\* The initial texts of App.vue's refs.
DefaultMajorTicksInput == ToTokens(<<-100, -50, -10, 0, 10, 50, 100>>)
DefaultWeightsInput == ToTokens(<<100, 100, 300, 300, 100, 100>>)
DefaultMinorTicksInput ==
    ToTokens(<<-9, -8, -7, -6, -4, -3, -2, -1, 1, 2, 3, 4, 6, 7, 8, 9>>)
DefaultIntermediateTicksInput == ToTokens(<<-5, 5>>)

\* The tokens the generated texts are made of, and the texts added to them:
\* the defaults, a three-point scale and a negative weight in a weight list
\* that sums to 1.
MajorTickTokens == {Num(0), Num(50)}
WeightTokens == {Num(-500), Num(0), Num(500), Num(1000)}

MajorTicksInputs ==
    TokenSeqs(MajorTickTokens, MaxTicks)
    \cup {DefaultMajorTicksInput, ToTokens(<<-100, 0, 50>>)}
WeightsInputs ==
    TokenSeqs(WeightTokens, MaxTicks - 1)
    \cup {DefaultWeightsInput, ToTokens(<<1500, -500>>)}
MinorTicksInputs ==
    {DefaultMinorTicksInput, <<Garbage>>, <<Num(0), Garbage, Num(5), Num(50)>>}
IntermediateTicksInputs ==
    {DefaultIntermediateTicksInput, <<Garbage>>, <<Num(0), Num(5), Num(5)>>}

Orientations == {"horizontal", "vertical"}
PaddingChoices == {50, 450, 500}

\* The values the scale is probed at, in tenths: the multiples of 2.5, and 0.5.
ProbeValues == {k * 25 : k \in -MaxProbe .. MaxProbe} \cup {5}
ValueChoices == {-150, 0, 5, 150}
\* Values of the other controls.
PercentChoices == {5, 10}
ColorChoices == {"#ef4444", "#3b82f6"}
OpacityChoices == {50, 100}
SizeChoices == {20, 30}
DistanceChoices == {5, 10}
\* Values and confidence percentages the simulation timer draws.
SimulationValueChoices == {-100, -25, 0, 75}
SimulationPercentChoices == {1, 8, 15}
\* Extents (width, height) the container can have; the hosting view lets the
\* user resize it, and a container that is not laid out measures 0 by 0.
ExtentChoices == {<<0, 0>>, <<900, 200>>, <<1000, 300>>}

----------------------------------------------------------------------------
(* LinearScale.vue, the two earlier variants of the component: the scale   *)
(* built from a percentage triplet on the fixed breakpoints -10 .. 10, and *)
(* the scale built from the triplet and the domainBreakpoints prop with    *)
(* its tick marks derived from the breakpoints                             *)

\* JavaScript's undefined, the value of an array read outside its bounds; a
\* number x read from an array is <<x>>.
Undefined == <<>>

\* The breakpoints the first variant is written for, in tenths.
FixedBreakpoints == <<-100, -50, -10, 0, 10, 50, 100>>

\* Mutant of segment1to5Px: the whole mid share for each of the two segments.
segment1to5Px_Whole(p_mid, effLen) == RMul(p_mid, RInt(effLen))

\* const segment1to5Px = (p_mid / 2) * effectiveLength
segment1to5Px(p_mid, effLen) == RMul(RMul(p_mid, <<1, 2>>), RInt(effLen))

\* a + b for the horizontal scale, a - b for the vertical one.
Along(orientation_, a, b) ==
    IF orientation_ = "horizontal" THEN RAdd(a, b) ELSE RSub(a, b)
Against(orientation_, a, b) ==
    IF orientation_ = "horizontal" THEN RSub(a, b) ELSE RAdd(a, b)

\* The first variant's createCustomScale: rangePoints[0] first, then outwards.
createCustomScalePercent(totalDimension, p_center, p_mid, p_outer, orientation_, padding) ==
    LET start == startPx(totalDimension, orientation_, padding)
        effLen == effectiveLengthOf(totalDimension, orientation_, padding)
        s11 == RMul(p_center, RInt(effLen))
        s15 == segment1to5Px(p_mid, effLen)
        s510 == RMul(RMul(p_outer, <<1, 2>>), RInt(effLen))
        half11 == RMul(s11, <<1, 2>>)
        rp0 == Along(orientation_,
                     Along(orientation_,
                           Along(orientation_, RInt(start), s510), s15),
                     half11)
        rp1 == Along(orientation_, rp0, half11)
        rpm1 == Against(orientation_, rp0, half11)
        rp5 == Along(orientation_, rp1, s15)
        rpm5 == Against(orientation_, rpm1, s15)
        rp10 == Along(orientation_, rp5, s510)
        rpm10 == Against(orientation_, rpm5, s510)
        rp == (0 :> rp0) @@ (10 :> rp1) @@ (-10 :> rpm1) @@ (50 :> rp5)
              @@ (-50 :> rpm5) @@ (100 :> rp10) @@ (-100 :> rpm10)
    IN  [kind |-> "custom",
         domain |-> <<-100, 100>>,
         range |-> IF orientation_ = "horizontal" THEN <<rpm10, rp10>>
                   ELSE <<rp10, rpm10>>,
         sortedBreakpoints |-> FixedBreakpoints,
         rangePoints |-> rp,
         effectiveLength |-> <<effLen>>]

\* The guard of the second variant's fallback branch.
InvalidBreakpoints(domainBreakpoints) ==
    Len(domainBreakpoints) # 7 \/ ~Includes(domainBreakpoints, 0)

\* The pixel of sortedBreakpoints[i + 1] from the pixel of sortedBreakpoints[i]:
\* outer, mid, half the centre, half the centre, mid, outer.
RECURSIVE BreakpointRangePoints(_, _, _, _, _, _)
BreakpointRangePoints(i, px, rp, sortedBreakpoints, lengths, orientation_) ==
    IF i > 6 THEN rp
    ELSE LET nxt == Along(orientation_, px, lengths[i])
         IN  BreakpointRangePoints(i + 1, nxt,
                                   PutRangePoint(rp, sortedBreakpoints[i + 1], nxt),
                                   sortedBreakpoints, lengths, orientation_)

\* The second variant's createCustomScale.
createCustomScaleBreakpoints(totalDimension, domainBreakpoints, p_center, p_mid, p_outer, orientation_, padding) ==
    IF InvalidBreakpoints(domainBreakpoints)
    THEN [kind |-> "linear",
          domain |-> defaultDomain,
          range |-> IF orientation_ = "horizontal"
                    THEN <<RInt(padding), RInt(totalDimension - padding)>>
                    ELSE <<RInt(totalDimension - padding), RInt(padding)>>,
          sortedBreakpoints |-> <<>>,
          rangePoints |-> <<>>,
          effectiveLength |-> <<>>]
    ELSE LET sortedBreakpoints == SortAsc(domainBreakpoints)
             start == startPx(totalDimension, orientation_, padding)
             effLen == effectiveLengthOf(totalDimension, orientation_, padding)
             center == RMul(p_center, RInt(effLen))
             mid == RMul(RMul(p_mid, <<1, 2>>), RInt(effLen))
             outer == RMul(RMul(p_outer, <<1, 2>>), RInt(effLen))
             halfCenter == RMul(center, <<1, 2>>)
             lengths == <<outer, mid, halfCenter, halfCenter, mid, outer>>
             rp == BreakpointRangePoints(1, RInt(start),
                                         sortedBreakpoints[1] :> RInt(start),
                                         sortedBreakpoints, lengths,
                                         orientation_)
         IN  [kind |-> "custom",
              domain |-> <<sortedBreakpoints[1], sortedBreakpoints[7]>>,
              range |-> customRange(sortedBreakpoints, rp, orientation_),
              sortedBreakpoints |-> sortedBreakpoints,
              rangePoints |-> rp,
              effectiveLength |-> <<effLen>>]

\* scale(value) of both earlier variants: the bare linear scale of the
\* fallback, or customScale(value), sb being the seven sorted breakpoints:
\* the chain of comparisons on either side of 0, and the pixel of sb[4] (the
\* breakpoint 0) when no comparison holds.
customScaleSeven(sc, value) ==
    LET sb == sc.sortedBreakpoints
        rp == sc.rangePoints
        seg(i) == d3ScaleLinear(sb[i], sb[i + 1], rp[sb[i]], rp[sb[i + 1]], value)
    IN  IF sc.kind = "linear"
        THEN d3ScaleLinear(sc.domain[1], sc.domain[2], sc.range[1],
                           sc.range[2], value)
        ELSE IF value >= 0
        THEN IF value <= sb[5] THEN seg(4)
             ELSE IF value <= sb[6] THEN seg(5)
             ELSE IF value <= sb[7] THEN seg(6)
             ELSE rp[sb[4]]
        ELSE IF value >= sb[3] THEN seg(3)
             ELSE IF value >= sb[2] THEN seg(2)
             ELSE IF value >= sb[1] THEN seg(1)
             ELSE rp[sb[4]]

\* d3.range(start, stop, step) for a positive step:
\* Math.max(0, Math.ceil((stop - start) / step)) values start + i * step.
d3Range(start, stop, step) ==
    LET n == IF stop <= start THEN 0 ELSE (stop - start + step - 1) \div step
    IN  [i \in 1 .. n |-> start + (i - 1) * step]

\* majorTicks.indexOf(x), counted from 1: 0 stands for JavaScript's -1.
IndexOf(s, x) ==
    IF Includes(s, x) THEN CHOOSE i \in DOMAIN s : s[i] = x /\ \A j \in 1 .. i - 1 : s[j] # x
    ELSE 0

\* negOne and posOne: the neighbours of 0 in the prop as it was passed,
\* undefined when the index lies outside the array.
negOne(majorTicks) ==
    IF IndexOf(majorTicks, 0) - 1 \in DOMAIN majorTicks
    THEN <<majorTicks[IndexOf(majorTicks, 0) - 1]>> ELSE Undefined
posOne(majorTicks) ==
    IF IndexOf(majorTicks, 0) + 1 \in DOMAIN majorTicks
    THEN <<majorTicks[IndexOf(majorTicks, 0) + 1]>> ELSE Undefined

\* The values of the first loop that are not major ticks.  d3.range steps by
\* 0.1 from negOne to below posOne + 0.1; parseFloat(d.toFixed(2)) rounds to
\* hundredths, which leaves a number of tenths as it is.
subTickValues(majorTicks) ==
    IF negOne(majorTicks) # Undefined /\ posOne(majorTicks) # Undefined
    THEN SelectSeq(d3Range(negOne(majorTicks)[1], posOne(majorTicks)[1] + 1, 1),
                   LAMBDA val : ~Includes(majorTicks, val))
    ELSE <<>>

\* val % 0.5 === 0 && val !== 0
IsHalf(val) == val % 5 = 0 /\ val # 0

halfTicks(majorTicks) == SelectSeq(subTickValues(majorTicks), IsHalf)

smallTicks(majorTicks) ==
    SelectSeq(subTickValues(majorTicks),
              LAMBDA val : ~IsHalf(val) /\ val % 10 # 0)

\* minorTicks: the values of the first loop with val % 1 === 0 that are not
\* half ticks, then the values of d3.range(minDomain, maxDomain + 1, 1) that
\* are not major ticks and have d < negOne || d > posOne, which is false for
\* a comparison with undefined.
minorTicksAuto(majorTicks) ==
    SelectSeq(subTickValues(majorTicks),
              LAMBDA val : ~IsHalf(val) /\ val % 10 = 0)
    \o SelectSeq(d3Range(majorTicks[1], majorTicks[Len(majorTicks)] + 10, 10),
                 LAMBDA d :
                    /\ ~Includes(majorTicks, d)
                    /\ \/ /\ negOne(majorTicks) # Undefined
                          /\ d < negOne(majorTicks)[1]
                       \/ /\ posOne(majorTicks) # Undefined
                          /\ d > posOne(majorTicks)[1])

\* What the two earlier variants draw for the props p: the pixel of the
\* indicator on each scale, and the tick lists of the second variant.
variantScales(p) ==
    LET totalDimension == IF p.orientation = "horizontal" THEN p.svgWidth
                          ELSE p.svgHeight
    IN  [fixed |-> createCustomScalePercent(
                       totalDimension, Rat(p.percentCenter, 100),
                       Rat(p.percentMid, 100), Rat(p.percentOuter, 100),
                       p.orientation, p.scalePadding),
         breakpoints |-> createCustomScaleBreakpoints(
                       totalDimension, p.domainBreakpoints,
                       Rat(p.percentCenter, 100), Rat(p.percentMid, 100),
                       Rat(p.percentOuter, 100), p.orientation,
                       p.scalePadding)]

variantPosOf(p) ==
    [fixed |-> customScaleSeven(variantScales(p).fixed, p.value),
     breakpoints |-> customScaleSeven(variantScales(p).breakpoints, p.value)]

variantTicksOf(p) ==
    [minorTicks |-> minorTicksAuto(p.domainBreakpoints),
     halfTicks |-> halfTicks(p.domainBreakpoints),
     smallTicks |-> smallTicks(p.domainBreakpoints)]

\* The defaults of the props of the earlier variants and of their extent refs.
DefaultVariantProps ==
    [percentCenter |-> 40, percentMid |-> 40, percentOuter |-> 20,
     domainBreakpoints |-> FixedBreakpoints, orientation |-> "horizontal",
     scalePadding |-> 50, value |-> 0, svgWidth |-> 900, svgHeight |-> 200]

\* The percentage triplets (center, mid, outer) the inputs are set to; the
\* app reports a total other than 100 and passes the triplet on all the same.
PercentageChoices ==
    {<<40, 40, 20>>, <<20, 40, 40>>, <<60, 40, 0>>, <<0, 40, 60>>,
     <<100, 0, 0>>, <<20, 20, 60>>, <<40, 40, 40>>, <<20, 20, 20>>}

\* The lists the domainBreakpoints prop is set to, in tenths: the default, a
\* sorted list with a wider innermost segment, a descending list, a list with
\* 0 between -5 and 5 in the array, a list with a fractional first
\* breakpoint, and a list the scale builder rejects.
BreakpointChoices ==
    {FixedBreakpoints,
     <<-60, -40, -20, 0, 20, 40, 60>>,
     <<100, 50, 10, 0, -10, -50, -100>>,
     <<-50, 0, 50, -10, 10, -100, 100>>,
     <<-95, -50, -10, 0, 10, 50, 100>>,
     <<-100, 100>>}

\* The values the earlier variants are probed at, in tenths.
VariantValues ==
    {-120, -101, -100, -75, -50, -30, -10, -5, 0, 5, 10, 30, 50, 75, 100, 101, 120}

----------------------------------------------------------------------------
(* State machine *)

\* drawScale passes the width for a horizontal and the height for a vertical
\* scale.
dimensionFor(orientation_, width, height) ==
    IF orientation_ = "horizontal" THEN width ELSE height

\* The props of the component as the hosting view binds them.
props ==
    [value |-> currentValue,
     majorTicks |-> propMajorTicks,
     weights |-> propWeights,
     minorTicks |-> propMinorTicks,
     intermediateTicks |-> propIntermediateTicks,
     orientation |-> orientation,
     scalePadding |-> scalePadding,
     confidenceRangePercent |-> confidenceRangePercent,
     confidenceBoxCrossDimension |-> confidenceBoxCrossDimension,
     indicatorSize |-> indicatorSize,
     indicatorColor |-> indicatorColor,
     indicatorOpacity |-> indicatorOpacity,
     indicatorDistancePercent |-> indicatorDistancePercent]

\* `let scale;` before the first drawScale.
NoScale == [kind |-> "none"]

\* The number NaN: what arithmetic on `undefined` yields.
NaN == <<0, 0>>

\* (props.confidenceRangePercent / 100) * scale.effectiveLength.  The fallback
\* scale has no effectiveLength property: undefined, and the product is NaN.
confidencePx(sc, percent) ==
    IF sc.effectiveLength = <<>> THEN NaN
    ELSE Rat(percent * sc.effectiveLength[1], 100)

\* pos - confidencePx / 2
boxStart(pos, px) ==
    IF px = NaN THEN NaN ELSE RSub(pos, RMul(px, Rat(1, 2)))

\* The x, y, width and height attributes updateIndicatorAndConfidence gives
\* the ".confidence-box" rect.
confidenceBoxOf(sc, p, width, height) ==
    LET pos == scaleApply(sc, p.value)
        px == confidencePx(sc, p.confidenceRangePercent)
        cross == p.confidenceBoxCrossDimension
    IN  IF p.orientation = "horizontal"
        THEN [x |-> boxStart(pos, px),
              y |-> RSub(Rat(height, 2), Rat(cross, 2)),
              width |-> px,
              height |-> RInt(cross)]
        ELSE [x |-> RSub(Rat(width, 2), Rat(cross, 2)),
              y |-> boxStart(pos, px),
              width |-> RInt(cross),
              height |-> px]

\* The three vertices of the indicator polygon drawScale computes from the
\* indicator size and its distance from the scale line.
indicatorPointsOf(p, width, height) ==
    LET size == p.indicatorSize
        crossExtent == IF p.orientation = "horizontal" THEN height ELSE width
        scaleLinePos == Rat(crossExtent, 2)
        indicatorDistancePx == Rat(p.indicatorDistancePercent * crossExtent, 100)
        base == RSub(scaleLinePos, indicatorDistancePx)
        tip == RAdd(base, RInt(size))
    IN  IF p.orientation = "horizontal"
        THEN << <<RInt(0), tip>>, <<Rat(-size, 2), base>>, <<Rat(size, 2), base>> >>
        ELSE << <<tip, RInt(0)>>, <<base, Rat(-size, 2)>>, <<base, Rat(size, 2)>> >>

\* The calls of one drawScale() that draws, in the order of its body, and of
\* one that returns at its svgRef guard.
DrawTrace ==
    <<"drawScale", "createCustomScale", "allTickValues",
      "updateIndicatorAndConfidence">>
SkippedDrawTrace == <<"drawScale">>
\* The calls of the cheap watcher's callback.
UpdateTrace == <<"updateIndicatorAndConfidence">>

\* The body of updateIndicatorAndConfidence() against scale sc with props p.
applyGeometry(sc, p, width, height) ==
    /\ indicatorPos' = scaleApply(sc, p.value)
    /\ indicatorStyle' = [fill |-> p.indicatorColor,
                          fillOpacity |-> p.indicatorOpacity]
    /\ confidenceBox' = confidenceBoxOf(sc, p, width, height)

\* drawScale() with the props p and the extent it reads, `ref` telling whether
\* svgRef.value is an element: nothing without the SVG element; otherwise
\* build the scale, draw the ticks, the box and the indicator, then run
\* updateIndicatorAndConfidence() against the new scale.
drawScale_NoUpdate(ref, p, width, height) ==
    IF ~ref
    THEN UNCHANGED <<drawnVars, updatedVars>>
    ELSE \E sc \in {createCustomScale(dimensionFor(p.orientation, width, height),
                                      p.majorTicks, p.weights, p.orientation,
                                      p.scalePadding)} :
            /\ scale' = sc
            /\ ticks' = renderTicks(sc, p.majorTicks, p.minorTicks,
                                    p.intermediateTicks)
            /\ buildErrors' = InvalidForScale(p.majorTicks, p.weights)
            /\ indicatorPoints' = indicatorPointsOf(p, width, height)
            /\ UNCHANGED updatedVars

drawScale(ref, p, width, height) ==
    IF ~ref
    THEN UNCHANGED <<drawnVars, updatedVars>>
    ELSE \E sc \in {createCustomScale(dimensionFor(p.orientation, width, height),
                                      p.majorTicks, p.weights, p.orientation,
                                      p.scalePadding)} :
            /\ scale' = sc
            /\ ticks' = renderTicks(sc, p.majorTicks, p.minorTicks,
                                    p.intermediateTicks)
            /\ buildErrors' = InvalidForScale(p.majorTicks, p.weights)
            /\ indicatorPoints' = indicatorPointsOf(p, width, height)
            /\ applyGeometry(sc, p, width, height)

\* The scale drawScale builds from the props and the extent as they stand.
currentScale ==
    createCustomScale(dimensionFor(orientation, svgWidth, svgHeight),
                      propMajorTicks, propWeights, orientation, scalePadding)

\* updateIndicatorAndConfidence() with the props p: nothing before the first
\* drawScale or without the SVG element.
updateIndicatorAndConfidence(p) ==
    /\ IF scale.kind = "none" \/ ~svgRef
       THEN UNCHANGED updatedVars
       ELSE applyGeometry(scale, p, svgWidth, svgHeight)
    /\ UNCHANGED drawnVars

\* The handler called the functions of `log`, in this order.
Handled(log) ==
    handlerLog' = log

\* The callback of the deep watcher of orientation, scalePadding, the tick
\* lists, the weights, indicatorSize, indicatorDistancePercent and
\* majorTickTextOffset.
redrawWatch_UpdateOnly(p) ==
    /\ updateIndicatorAndConfidence(p)
    /\ Handled(UpdateTrace)

redrawWatch(p) ==
    /\ drawScale(svgRef, p, svgWidth, svgHeight)
    /\ Handled(DrawTrace)

\* The callback of the watcher of value, confidenceRangePercent, the colours,
\* the opacities, confidenceBoxCrossDimension and transitionDuration, the
\* props being p after the change.
cheapWatch_Redraw(p) ==
    redrawWatch(p)

cheapWatch(p) ==
    /\ updateIndicatorAndConfidence(p)
    /\ Handled(UpdateTrace)

\* The scale and the ticks of the first drawScale, run by onMounted with the
\* default props and the container's extent.
initialScale ==
    createCustomScale(900, parsedMajorTicks(DefaultMajorTicksInput),
                      parseNumberArray(DefaultWeightsInput), "horizontal", 50)

\* The defaults of the refs bound to the geometry and indicator props
\* (opacity in hundredths).
GeometryDefaults ==
    /\ confidenceRangePercent = 5
    /\ confidenceBoxCrossDimension = 20
    /\ indicatorSize = 20
    /\ indicatorColor = "#ef4444"
    /\ indicatorOpacity = 100
    /\ indicatorDistancePercent = 5

\* The earlier variants as they are first drawn, with the default props.
VariantDefaults ==
    /\ variantProps = DefaultVariantProps
    /\ variantPos = variantPosOf(DefaultVariantProps)
    /\ variantTicks = variantTicksOf(DefaultVariantProps)

\* No simulation has been started.
SimulationIdle ==
    /\ isSimulationRunning = FALSE
    /\ simulationInterval = 0
    /\ activeTimers = {}
    /\ timersCreated = 0
    /\ timerDelays = <<>>
    /\ simulationFrequency = 1
    /\ appMounted = TRUE

\* The component is mounted and its last drawScale drew `scale` from the props
\* and the stored extent.
MountedAndDrawn ==
    /\ lifecycle = "mounted"
    /\ svgRef = TRUE
    /\ observing = TRUE
    /\ ticks = renderTicks(scale, propMajorTicks, propMinorTicks,
                          propIntermediateTicks)
    /\ buildErrors = InvalidForScale(propMajorTicks, propWeights)
    /\ indicatorPoints = indicatorPointsOf(props, svgWidth, svgHeight)
    /\ indicatorPos = scaleApply(scale, currentValue)
    /\ indicatorStyle = [fill |-> indicatorColor, fillOpacity |-> indicatorOpacity]
    /\ confidenceBox = confidenceBoxOf(scale, props, svgWidth, svgHeight)
    /\ handlerLog = DrawTrace

Init ==
    /\ majorTicksInput = DefaultMajorTicksInput
    /\ weightsInput = DefaultWeightsInput
    /\ minorTicksInput = DefaultMinorTicksInput
    /\ intermediateTicksInput = DefaultIntermediateTicksInput
    /\ majorTicksError = FALSE
    /\ weightsError = FALSE
    /\ weightsSumError = FALSE
    /\ orientation = "horizontal"
    /\ scalePadding = 50
    /\ currentValue = 0
    /\ GeometryDefaults
    /\ SimulationIdle
    /\ VariantDefaults
    /\ svgWidth = 900
    /\ svgHeight = 200
    /\ scale = initialScale
    /\ MountedAndDrawn

\* The controls of the hosting view are disabled while the simulation runs,
\* and the component's watchers live while it is mounted.
ControlsEnabled == lifecycle = "mounted" /\ ~isSimulationRunning

\* The user edits the major tick text: parsedMajorTicks and parsedWeights are
\* recomputed and the component's deep watcher redraws.  (The hosting view's
\* own watcher of parsedMajorTicks restarts a running simulation; the input is
\* disabled while one runs.)
EditMajorTicks ==
    \E inp \in MajorTicksInputs :
        /\ ControlsEnabled
        /\ inp # majorTicksInput
        /\ majorTicksInput' = inp
        /\ majorTicksError' = MajorTicksRejected(parseNumberArray(inp))
        /\ weightsError' = weightsErrorAfter(weightsInput, parsedMajorTicks(inp))
        /\ weightsSumError' =
               weightsSumErrorAfter(weightsInput, parsedMajorTicks(inp),
                                    weightsSumError)
        /\ UNCHANGED <<variantVars, weightsInput, minorTicksInput, intermediateTicksInput,
                       orientation, scalePadding, currentValue, svgWidth,
                       svgHeight, geometryProps, simVars, lifeVars>>
        /\ redrawWatch([props EXCEPT
                        !.majorTicks = parsedMajorTicks(inp),
                        !.weights = parsedWeights(weightsInput,
                                                  parsedMajorTicks(inp))])

\* The weight texts typed into the view with its default major ticks: the
\* default, another list of six weights that sums to 1, one that sums to
\* 1.4, and two lists of the wrong length.
WeightsEdits ==
    {DefaultWeightsInput, ToTokens(<<200, 200, 100, 100, 200, 200>>),
     ToTokens(<<100, 100, 300, 300, 100, 500>>),
     ToTokens(<<500, 500>>), ToTokens(<<1500, -500>>)}

\* The user edits the weights text: parsedWeights is recomputed.
EditWeights ==
    \E inp \in WeightsEdits :
        /\ ControlsEnabled
        /\ inp # weightsInput
        /\ weightsInput' = inp
        /\ weightsError' = weightsErrorAfter(inp, propMajorTicks)
        /\ weightsSumError' =
               weightsSumErrorAfter(inp, propMajorTicks, weightsSumError)
        /\ UNCHANGED <<variantVars, majorTicksInput, minorTicksInput,
                       intermediateTicksInput, majorTicksError, orientation,
                       scalePadding, currentValue, svgWidth, svgHeight,
                       geometryProps, simVars, lifeVars>>
        /\ redrawWatch([props EXCEPT
                        !.weights = parsedWeights(inp, propMajorTicks)])

EditMinorTicks ==
    \E inp \in MinorTicksInputs :
        /\ ControlsEnabled
        /\ inp # minorTicksInput
        /\ minorTicksInput' = inp
        /\ UNCHANGED <<variantVars, majorTicksInput, weightsInput, intermediateTicksInput,
                       majorTicksError, weightsError, weightsSumError,
                       orientation, scalePadding, currentValue, svgWidth,
                       svgHeight, geometryProps, simVars, lifeVars>>
        /\ redrawWatch([props EXCEPT !.minorTicks = parseNumberArray(inp)])

EditIntermediateTicks ==
    \E inp \in IntermediateTicksInputs :
        /\ ControlsEnabled
        /\ inp # intermediateTicksInput
        /\ intermediateTicksInput' = inp
        /\ UNCHANGED <<variantVars, majorTicksInput, weightsInput, minorTicksInput,
                       majorTicksError, weightsError, weightsSumError,
                       orientation, scalePadding, currentValue, svgWidth,
                       svgHeight, geometryProps, simVars, lifeVars>>
        /\ redrawWatch([props EXCEPT !.intermediateTicks = parseNumberArray(inp)])

SetOrientation ==
    \E o \in Orientations :
        /\ ControlsEnabled
        /\ o # orientation
        /\ orientation' = o
        /\ UNCHANGED <<variantVars, inputVars, scalePadding, currentValue, svgWidth,
                       svgHeight, geometryProps, simVars, lifeVars>>
        /\ redrawWatch([props EXCEPT !.orientation = o])

SetPadding ==
    \E pad \in PaddingChoices :
        /\ ControlsEnabled
        /\ pad # scalePadding
        /\ scalePadding' = pad
        /\ UNCHANGED <<variantVars, inputVars, orientation, currentValue, svgWidth,
                       svgHeight, geometryProps, simVars, lifeVars>>
        /\ redrawWatch([props EXCEPT !.scalePadding = pad])

\* The `value` prop changes (any Number: the slider or a hosting view sets
\* it): the cheap watcher runs updateIndicatorAndConfidence only.
SetValue ==
    \E v \in ValueChoices :
        /\ ControlsEnabled
        /\ v # currentValue
        /\ currentValue' = v
        /\ UNCHANGED <<variantVars, inputVars, orientation, scalePadding, svgWidth,
                       svgHeight, geometryProps, simVars, lifeVars>>
        /\ cheapWatch([props EXCEPT !.value = v])

\* The confidenceRangePercent prop changes: the cheap watcher again.
SetConfidenceRangePercent ==
    \E c \in PercentChoices :
        /\ ControlsEnabled
        /\ c # confidenceRangePercent
        /\ confidenceRangePercent' = c
        /\ UNCHANGED <<variantVars, inputVars, orientation, scalePadding, currentValue,
                       svgWidth, svgHeight, confidenceBoxCrossDimension,
                       indicatorSize, indicatorColor, indicatorOpacity,
                       indicatorDistancePercent, simVars, lifeVars>>
        /\ cheapWatch(
               [props EXCEPT !.confidenceRangePercent = c])

\* indicatorColor and indicatorOpacity are sources of the cheap watcher.
SetIndicatorColor ==
    \E c \in ColorChoices :
        /\ ControlsEnabled
        /\ c # indicatorColor
        /\ indicatorColor' = c
        /\ UNCHANGED <<variantVars, inputVars, orientation, scalePadding, currentValue,
                       svgWidth, svgHeight, confidenceRangePercent,
                       confidenceBoxCrossDimension, indicatorSize,
                       indicatorOpacity, indicatorDistancePercent, simVars,
                       lifeVars>>
        /\ cheapWatch([props EXCEPT !.indicatorColor = c])

SetIndicatorOpacity ==
    \E o \in OpacityChoices :
        /\ ControlsEnabled
        /\ o # indicatorOpacity
        /\ indicatorOpacity' = o
        /\ UNCHANGED <<variantVars, inputVars, orientation, scalePadding, currentValue,
                       svgWidth, svgHeight, confidenceRangePercent,
                       confidenceBoxCrossDimension, indicatorSize,
                       indicatorColor, indicatorDistancePercent, simVars,
                       lifeVars>>
        /\ cheapWatch([props EXCEPT !.indicatorOpacity = o])

\* indicatorSize and indicatorDistancePercent are sources of the full-redraw
\* watcher.
SetIndicatorSize ==
    \E z \in SizeChoices :
        /\ ControlsEnabled
        /\ z # indicatorSize
        /\ indicatorSize' = z
        /\ UNCHANGED <<variantVars, inputVars, orientation, scalePadding, currentValue,
                       svgWidth, svgHeight, confidenceRangePercent,
                       confidenceBoxCrossDimension, indicatorColor,
                       indicatorOpacity, indicatorDistancePercent, simVars,
                       lifeVars>>
        /\ redrawWatch([props EXCEPT !.indicatorSize = z])

SetIndicatorDistancePercent ==
    \E d \in DistanceChoices :
        /\ ControlsEnabled
        /\ d # indicatorDistancePercent
        /\ indicatorDistancePercent' = d
        /\ UNCHANGED <<variantVars, inputVars, orientation, scalePadding, currentValue,
                       svgWidth, svgHeight, confidenceRangePercent,
                       confidenceBoxCrossDimension, indicatorSize,
                       indicatorColor, indicatorOpacity, simVars, lifeVars>>
        /\ redrawWatch([props EXCEPT !.indicatorDistancePercent = d])

----------------------------------------------------------------------------
(* Lifecycle of the component, resize notifications, the simulation timer *)

\* The state when setup has run and nothing is mounted yet.
InitSetup ==
    /\ majorTicksInput = DefaultMajorTicksInput
    /\ weightsInput = DefaultWeightsInput
    /\ minorTicksInput = DefaultMinorTicksInput
    /\ intermediateTicksInput = DefaultIntermediateTicksInput
    /\ majorTicksError = FALSE
    /\ weightsError = FALSE
    /\ weightsSumError = FALSE
    /\ orientation = "horizontal"
    /\ scalePadding = 50
    /\ currentValue = 0
    /\ GeometryDefaults
    /\ SimulationIdle
    /\ VariantDefaults
    /\ lifecycle = "setup"
    /\ svgRef = FALSE
    /\ observing = FALSE
    /\ svgWidth = 900
    /\ svgHeight = 200
    /\ scale = NoScale
    /\ ticks = <<>>
    /\ buildErrors = FALSE
    /\ indicatorPoints = <<>>
    /\ indicatorPos = <<>>
    /\ indicatorStyle = <<>>
    /\ confidenceBox = <<>>
    /\ handlerLog = <<>>

\* stopSimulation(): clear the interval `simulationInterval` names, if any.
stopSimulation_NoClear(interval, timers) ==
    [interval |-> 0, timers |-> timers]

stopSimulation(interval, timers) ==
    IF interval # 0
    THEN [interval |-> 0, timers |-> timers \ {interval}]
    ELSE [interval |-> interval, timers |-> timers]

\* onMounted: Vue has set svgRef; the observer is created and observes the
\* container, the extent is read from the container (clientWidth and
\* clientHeight, whatever they are) and drawScale runs.
Mount ==
    \E e \in ExtentChoices :
        /\ lifecycle = "setup"
        /\ lifecycle' = "mounted"
        /\ svgRef' = TRUE
        /\ observing' = TRUE
        /\ svgWidth' = e[1]
        /\ svgHeight' = e[2]
        /\ UNCHANGED <<variantVars, inputVars, orientation, scalePadding, currentValue,
                       geometryProps, simVars>>
        /\ drawScale(TRUE, props, e[1], e[2])
        /\ Handled(DrawTrace)

\* The loop of the ResizeObserver callback over the entries from position i,
\* the stored extent being <<w, h>>: the extent it leaves and the number of
\* entries that differed from the extent stored when they were handled.
ResizeLoop_Always(entries, i, w, h, changed) ==
    IF i > Len(entries) THEN [w |-> w, h |-> h, changed |-> changed]
    ELSE [w |-> entries[Len(entries)][1], h |-> entries[Len(entries)][2],
          changed |-> changed + Len(entries) - i + 1]

RECURSIVE ResizeLoop(_, _, _, _, _)
ResizeLoop(entries, i, w, h, changed) ==
    IF i > Len(entries) THEN [w |-> w, h |-> h, changed |-> changed]
    ELSE IF w # entries[i][1] \/ h # entries[i][2]
    THEN ResizeLoop(entries, i + 1, entries[i][1], entries[i][2], changed + 1)
    ELSE ResizeLoop(entries, i + 1, w, h, changed)

\* n runs of the same calls, one after the other.
RECURSIVE Repeat(_, _)
Repeat(trace, n) == IF n = 0 THEN <<>> ELSE trace \o Repeat(trace, n - 1)

\* The notifications the observer can deliver: one to MaxEntries entries.
ResizeNotifications ==
    UNION {[1 .. n -> ExtentChoices] : n \in 1 .. MaxEntries}

\* The ResizeObserver callback, delivered `entries`.  Every entry that
\* differs from the stored extent is stored and followed by drawScale(); each
\* drawScale reads the props and the extent just stored, so what is left
\* drawn is the last of them.
resizeCallback(entries) ==
    \E r \in {ResizeLoop(entries, 1, svgWidth, svgHeight, 0)} :
        /\ svgWidth' = r.w
        /\ svgHeight' = r.h
        /\ Handled(Repeat(IF svgRef THEN DrawTrace ELSE SkippedDrawTrace,
                          r.changed))
        /\ UNCHANGED <<variantVars, inputVars, orientation, scalePadding, currentValue,
                       geometryProps, simVars, lifeVars>>
        /\ IF r.changed = 0
           THEN UNCHANGED <<drawnVars, updatedVars>>
           ELSE drawScale(svgRef, props, r.w, r.h)

\* The observer notifies the callback, while it observes the container.
ResizeNotify ==
    \E entries \in ResizeNotifications :
        /\ observing
        /\ resizeCallback(entries)

\* The hosting view is torn down.  The component's onUnmounted unobserves the
\* container only if svgRef.value is still an element when the hook runs,
\* which is the framework's order of clearing template refs and running
\* hooks: either is taken here.  The view's own onUnmounted calls
\* stopSimulation().  The watchers stop and the element is gone afterwards.
Unmount ==
    \E refAtHook \in BOOLEAN :
        \E st \in {stopSimulation(simulationInterval, activeTimers)} :
            /\ lifecycle = "mounted"
            /\ lifecycle' = "unmounted"
            /\ svgRef' = FALSE
            /\ observing' = (observing /\ ~refAtHook)
            /\ appMounted' = FALSE
            /\ simulationInterval' = st.interval
            /\ activeTimers' = st.timers
            /\ Handled(IF refAtHook THEN <<"unobserve", "stopSimulation">>
                       ELSE <<"stopSimulation">>)
            /\ UNCHANGED <<variantVars, inputVars, orientation, scalePadding, currentValue,
                           geometryProps, isSimulationRunning, timersCreated,
                           timerDelays, simulationFrequency, svgWidth,
                           svgHeight, drawnVars, updatedVars>>

\* const intervalMs = 1000 / frequency.
intervalMs(frequency) == Rat(1000, frequency)

\* toggleSimulation(): flip the flag, then startSimulation() (stopSimulation()
\* first, then a new interval with the delay computed from the frequency as
\* it stands at that moment) or stopSimulation().
ToggleSimulation ==
    \E st \in {stopSimulation(simulationInterval, activeTimers)} :
        /\ appMounted
        /\ lifecycle = "mounted"
        /\ isSimulationRunning' = ~isSimulationRunning
        /\ IF ~isSimulationRunning
           THEN /\ timersCreated < MaxTimers
                /\ timersCreated' = timersCreated + 1
                /\ simulationInterval' = timersCreated + 1
                /\ activeTimers' = st.timers \cup {timersCreated + 1}
                /\ timerDelays' = Append(timerDelays,
                                         intervalMs(simulationFrequency))
           ELSE /\ simulationInterval' = st.interval
                /\ activeTimers' = st.timers
                /\ UNCHANGED <<timersCreated, timerDelays>>
        /\ Handled(IF ~isSimulationRunning
                   THEN <<"stopSimulation", "setInterval">>
                   ELSE <<"stopSimulation">>)
        /\ UNCHANGED <<variantVars, inputVars, orientation, scalePadding, currentValue,
                       geometryProps, simulationFrequency, appMounted,
                       lifeVars, svgWidth, svgHeight, drawnVars, updatedVars>>

\* The 'Update Scale' button, disabled while the simulation runs: its click
\* handler is stopSimulation().
UpdateScale_AlwaysEnabled ==
    \E st \in {stopSimulation(simulationInterval, activeTimers)} :
        /\ appMounted
        /\ lifecycle = "mounted"
        /\ simulationInterval' = st.interval
        /\ activeTimers' = st.timers
        /\ Handled(<<"stopSimulation">>)
        /\ UNCHANGED <<variantVars, inputVars, orientation, scalePadding, currentValue,
                       geometryProps, isSimulationRunning, timersCreated,
                       timerDelays, simulationFrequency, appMounted, lifeVars,
                       svgWidth, svgHeight, drawnVars, updatedVars>>

UpdateScale ==
    /\ ControlsEnabled
    /\ UpdateScale_AlwaysEnabled

\* The positions of the simulation-frequency slider that are tried
\* (min 1, max 10, step 1).
FrequencyChoices == {1, 3, 10}

\* The simulation-frequency slider is moved.  It is the one control that is
\* not disabled while the simulation runs, and nothing watches the ref.
SetSimulationFrequency ==
    \E f \in FrequencyChoices :
        /\ appMounted
        /\ lifecycle = "mounted"
        /\ f # simulationFrequency
        /\ simulationFrequency' = f
        /\ Handled(<<>>)
        /\ UNCHANGED <<variantVars, inputVars, orientation, scalePadding, currentValue,
                       geometryProps, isSimulationRunning, simulationInterval,
                       activeTimers, timersCreated, timerDelays, appMounted,
                       lifeVars, svgWidth, svgHeight, drawnVars, updatedVars>>

\* min + Math.random() * (max - min) lies in [min, max).
SimulatedValues ==
    IF Len(propMajorTicks) > 1
    THEN {v \in SimulationValueChoices :
            propMajorTicks[1] <= v /\ v < propMajorTicks[Len(propMajorTicks)]}
         \cup {propMajorTicks[1]}
    ELSE {0}

\* An interval that has not been cleared fires: the callback draws a value
\* from the range of the major ticks and a confidence of 1 to 16 percent.
\* The component's cheap watcher runs once if it is mounted and a prop
\* changed.
SimulationTick ==
    \E v \in SimulatedValues, c \in SimulationPercentChoices :
        /\ activeTimers # {}
        /\ currentValue' = v
        /\ confidenceRangePercent' = c
        /\ UNCHANGED <<variantVars, inputVars, orientation, scalePadding,
                       confidenceBoxCrossDimension, indicatorSize,
                       indicatorColor, indicatorOpacity,
                       indicatorDistancePercent, simVars, lifeVars, svgWidth,
                       svgHeight>>
        /\ IF lifecycle = "mounted"
              /\ (v # currentValue \/ c # confidenceRangePercent)
           THEN /\ cheapWatch(
                       [props EXCEPT !.value = v,
                                     !.confidenceRangePercent = c])
           ELSE /\ UNCHANGED <<drawnVars, updatedVars>>
                /\ Handled(<<>>)

----------------------------------------------------------------------------
(* Specifications *)

\* The hosting view with any configuration typed in.  drawScale reads the
\* props and the stored extent and no earlier scale, so the state after any
\* sequence of edits of the major ticks, weights, orientation and padding is
\* the one drawn here from the texts and controls as they then stand (the
\* flags as after typing the weights last).
InitScale ==
    /\ majorTicksInput \in MajorTicksInputs
    /\ weightsInput \in WeightsInputs
    /\ minorTicksInput = DefaultMinorTicksInput
    /\ intermediateTicksInput = DefaultIntermediateTicksInput
    /\ majorTicksError = MajorTicksRejected(parseNumberArray(majorTicksInput))
    /\ weightsError = weightsErrorAfter(weightsInput, propMajorTicks)
    /\ weightsSumError = weightsSumErrorAfter(weightsInput, propMajorTicks, FALSE)
    /\ orientation \in Orientations
    /\ scalePadding \in PaddingChoices
    /\ currentValue = 0
    /\ GeometryDefaults
    /\ SimulationIdle
    /\ VariantDefaults
    /\ svgWidth = 900
    /\ svgHeight = 200
    /\ scale = currentScale
    /\ MountedAndDrawn

\* The scale builder and the forward mapping on every configuration.
NextScale == SetValue

SpecScale == InitScale /\ [][NextScale]_vars

\* The edits of the three tick lists, from the default view.
NextTicks ==
    \/ EditMajorTicks
    \/ EditMinorTicks
    \/ EditIntermediateTicks

SpecTicks == Init /\ [][NextTicks]_vars

\* The component from setup to teardown: mounting, resize notifications,
\* value updates and changes of the configuration.
NextLife ==
    \/ Mount
    \/ ResizeNotify
    \/ Unmount
    \/ SetValue
    \/ SetOrientation
    \/ SetPadding

SpecLife == InitSetup /\ [][NextLife]_vars

\* Every change that the full-redraw watcher or the resize callback handles,
\* from the default view.
NextRebuild ==
    \/ EditWeights
    \/ EditMinorTicks
    \/ SetOrientation
    \/ SetPadding
    \/ ResizeNotify

SpecRebuild == Init /\ [][NextRebuild]_vars

\* The simulation timer of the hosting view.
NextSimulation ==
    \/ ToggleSimulation
    \/ SimulationTick
    \/ SetValue
    \/ SetConfidenceRangePercent
    \/ Unmount

SpecSimulation == Init /\ [][NextSimulation]_vars

\* The earlier variants with any orientation and padding, in a container of
\* 900 by 200 or of 450 by 100.
InitVariants ==
    /\ majorTicksInput = DefaultMajorTicksInput
    /\ weightsInput = DefaultWeightsInput
    /\ minorTicksInput = DefaultMinorTicksInput
    /\ intermediateTicksInput = DefaultIntermediateTicksInput
    /\ majorTicksError = FALSE
    /\ weightsError = FALSE
    /\ weightsSumError = FALSE
    /\ orientation = "horizontal"
    /\ scalePadding = 50
    /\ currentValue = 0
    /\ GeometryDefaults
    /\ SimulationIdle
    /\ svgWidth = 900
    /\ svgHeight = 200
    /\ scale = initialScale
    /\ MountedAndDrawn
    /\ \E o \in Orientations, pad \in PaddingChoices, e \in {<<900, 200>>, <<450, 100>>} :
          /\ variantProps = [DefaultVariantProps EXCEPT !.orientation = o,
                                                        !.scalePadding = pad,
                                                        !.svgWidth = e[1],
                                                        !.svgHeight = e[2]]
          /\ variantPos = variantPosOf(variantProps)
          /\ variantTicks = variantTicksOf(variantProps)

\* The value prop of the earlier variants changes: their cheap watcher moves
\* the indicator to scale(props.value), on the scale of the last drawScale,
\* which every change of the configuration has rebuilt.
SetVariantValue ==
    \E v \in VariantValues :
        \E p \in {[variantProps EXCEPT !.value = v]} :
            /\ v # variantProps.value
            /\ variantProps' = p
            /\ variantPos' = variantPosOf(p)
            /\ UNCHANGED <<variantTicks, inputVars, orientation, scalePadding,
                           currentValue, geometryProps, simVars, lifeVars,
                           svgWidth, svgHeight, drawnVars, updatedVars,
                           handlerLog>>

\* The percentage inputs change: the full-redraw watcher runs drawScale.
SetPercentages ==
    \E t \in PercentageChoices :
        \E p \in {[variantProps EXCEPT !.percentCenter = t[1],
                                       !.percentMid = t[2],
                                       !.percentOuter = t[3]]} :
            /\ p # variantProps
            /\ variantProps' = p
            /\ variantPos' = variantPosOf(p)
            /\ variantTicks' = variantTicksOf(p)
            /\ UNCHANGED <<inputVars, orientation, scalePadding, currentValue,
                           geometryProps, simVars, lifeVars, svgWidth,
                           svgHeight, drawnVars, updatedVars, handlerLog>>

\* The domainBreakpoints prop changes: the deep full-redraw watcher of the
\* second variant runs drawScale.
SetDomainBreakpoints ==
    \E b \in BreakpointChoices :
        \E p \in {[variantProps EXCEPT !.domainBreakpoints = b]} :
            /\ p # variantProps
            /\ variantProps' = p
            /\ variantPos' = variantPosOf(p)
            /\ variantTicks' = variantTicksOf(p)
            /\ UNCHANGED <<inputVars, orientation, scalePadding, currentValue,
                           geometryProps, simVars, lifeVars, svgWidth,
                           svgHeight, drawnVars, updatedVars, handlerLog>>

\* The scales of the two earlier variants: the value and the percentages.
NextVariants ==
    \/ SetVariantValue
    \/ SetPercentages

SpecVariants == InitVariants /\ [][NextVariants]_vars

\* The tick marks the second variant derives: the value and the breakpoints.
NextAutoTicks ==
    \/ SetVariantValue
    \/ SetDomainBreakpoints

SpecAutoTicks == InitVariants /\ [][NextAutoTicks]_vars

\* The simulation button, the 'Update Scale' button and the major-ticks
\* input of the hosting view, with the timer firing in between.
NextApp ==
    \/ ToggleSimulation
    \/ UpdateScale
    \/ EditMajorTicks
    \/ SimulationTick

SpecApp == Init /\ [][NextApp]_vars

\* The simulation button and the frequency slider, with the timer firing in
\* between.
NextFrequency ==
    \/ ToggleSimulation
    \/ SetSimulationFrequency
    \/ SimulationTick

SpecFrequency == Init /\ [][NextFrequency]_vars

\* The text inputs of the major ticks and the weights.
NextInputs ==
    \/ EditMajorTicks
    \/ EditWeights

SpecInputs == Init /\ [][NextInputs]_vars

\* The controls of the indicator.
NextIndicator ==
    \/ SetValue
    \/ SetIndicatorColor
    \/ SetIndicatorOpacity
    \/ SetIndicatorSize
    \/ SetIndicatorDistancePercent

SpecIndicator == Init /\ [][NextIndicator]_vars

----------------------------------------------------------------------------
(* Properties *)

StrictlyAscending(s) == \A i \in DOMAIN s : i = 1 \/ s[i] > s[i - 1]

\* A valid ScaleConfiguration: at least two strictly ascending breakpoints,
\* one non-negative weight per segment, the weights summing to 1 within the
\* tolerance.
ValidConfiguration ==
    /\ Len(propMajorTicks) >= 2
    /\ StrictlyAscending(propMajorTicks)
    /\ Len(propWeights) = Len(propMajorTicks) - 1
    /\ \A i \in DOMAIN propWeights : propWeights[i] >= 0
    /\ ~WeightSumOff(propWeights)

\* Scenario A: the default breakpoints and weights, extent 900, padding 50,
\* horizontal.
ScenarioA ==
    /\ propMajorTicks = <<-100, -50, -10, 0, 10, 50, 100>>
    /\ propWeights = <<100, 100, 300, 300, 100, 100>>
    /\ orientation = "horizontal"
    /\ svgWidth = 900
    /\ scalePadding = 50

firstBreakpoint == propMajorTicks[1]
lastBreakpoint == propMajorTicks[Len(propMajorTicks)]

\* The extent along the scale axis.
totalExtent == dimensionFor(orientation, svgWidth, svgHeight)

\* The point at fraction (v - d0) / (d1 - d0) of the way from pixel p0 to
\* pixel p1.
Interpolate(d0, d1, p0, p1, v) ==
    RAdd(p0, RMul(Rat(v - d0, d1 - d0), RSub(p1, p0)))

\* C1: for a valid configuration in horizontal orientation the lowest
\* breakpoint maps to pixel `padding`, and consecutive breakpoints lie
\* weights[i] * (totalExtent - 2 * padding) pixels apart; in Scenario A the
\* breakpoints map to 50, 130, 210, 450, 690, 770, 850.
C1_SegmentTiling ==
    /\ (ValidConfiguration /\ orientation = "horizontal") =>
          /\ scale.kind = "custom"
          /\ scaleApply(scale, firstBreakpoint) = RInt(scalePadding)
          /\ \A i \in 1 .. Len(propMajorTicks) - 1 :
                RSub(scaleApply(scale, propMajorTicks[i + 1]),
                     scaleApply(scale, propMajorTicks[i]))
                = Rat(propWeights[i] * (totalExtent - 2 * scalePadding),
                      WeightDen)
    /\ ScenarioA =>
          [i \in 1 .. 7 |-> scaleApply(scale, propMajorTicks[i])]
          = <<RInt(50), RInt(130), RInt(210), RInt(450), RInt(690),
              RInt(770), RInt(850)>>

\* C1 witness: Scenario A has been drawn and 0 sits at pixel 450.
C1_Witness ==
    /\ ScenarioA
    /\ scale.kind = "custom"
    /\ scale.rangePoints[0] = RInt(450)

\* C2: for a valid configuration, a value inside the breakpoint range maps to
\* the linear interpolation between the pixels of the two breakpoints of any
\* segment that contains it, and so does the indicator; in Scenario A 0.5
\* maps to 570.
C2_Interpolation ==
    /\ ValidConfiguration =>
          /\ \A v \in ProbeValues :
                \A i \in 1 .. Len(propMajorTicks) - 1 :
                    (propMajorTicks[i] <= v /\ v <= propMajorTicks[i + 1]) =>
                        scaleApply(scale, v)
                        = Interpolate(propMajorTicks[i], propMajorTicks[i + 1],
                                      scaleApply(scale, propMajorTicks[i]),
                                      scaleApply(scale, propMajorTicks[i + 1]),
                                      v)
          /\ \A i \in 1 .. Len(propMajorTicks) - 1 :
                (propMajorTicks[i] <= currentValue
                 /\ currentValue <= propMajorTicks[i + 1]) =>
                    indicatorPos
                    = Interpolate(propMajorTicks[i], propMajorTicks[i + 1],
                                  scaleApply(scale, propMajorTicks[i]),
                                  scaleApply(scale, propMajorTicks[i + 1]),
                                  currentValue)
    /\ ScenarioA => scaleApply(scale, 5) = RInt(570)

\* C2 witness: in Scenario A the value 0.5 has been set and the indicator
\* stands at 570.
C2_Witness ==
    /\ ScenarioA
    /\ currentValue = 5
    /\ indicatorPos = RInt(570)

\* C3: for a valid configuration a value below the first breakpoint continues
\* the slope of the first segment and a value above the last breakpoint the
\* slope of the last segment.
C3_OutermostSegmentSlope ==
    ValidConfiguration =>
        LET n == Len(propMajorTicks)
        IN  \A v \in ProbeValues :
                /\ v > lastBreakpoint =>
                      scaleApply(scale, v)
                      = Interpolate(propMajorTicks[n - 1], propMajorTicks[n],
                                    scaleApply(scale, propMajorTicks[n - 1]),
                                    scaleApply(scale, propMajorTicks[n]), v)
                /\ v < firstBreakpoint =>
                      scaleApply(scale, v)
                      = Interpolate(propMajorTicks[1], propMajorTicks[2],
                                    scaleApply(scale, propMajorTicks[1]),
                                    scaleApply(scale, propMajorTicks[2]), v)

\* Values beyond the last breakpoint map strictly beyond its pixel and values
\* before the first breakpoint strictly before its pixel.
StrictlyBeyondEnds ==
    \A v \in ProbeValues :
        /\ v > lastBreakpoint =>
              RLt(scaleApply(scale, lastBreakpoint), scaleApply(scale, v))
        /\ v < firstBreakpoint =>
              RLt(scaleApply(scale, v), scaleApply(scale, firstBreakpoint))

\* C4: for every valid horizontal configuration out-of-domain values map
\* strictly beyond the end pixels; in Scenario A 15 maps beyond 850.
C4_NeverClamped ==
    /\ (ValidConfiguration /\ orientation = "horizontal") => StrictlyBeyondEnds
    /\ ScenarioA => RLt(RInt(850), scaleApply(scale, 150))

\* forward(a) <= forward(b) whenever a <= b, over the probe values.
Monotonic ==
    \A a, b \in ProbeValues :
        a <= b => RLe(scaleApply(scale, a), scaleApply(scale, b))

\* C5: every valid horizontal configuration is monotonic, over values inside,
\* below and above the breakpoint range.
C5_Monotonic ==
    (ValidConfiguration /\ orientation = "horizontal") => Monotonic

\* C6: a weight list whose sum deviates from 1.0 by more than 0.001 never
\* yields a piecewise scale: the fallback linear scale is built and an error
\* reported.
C6_WeightSumRejected ==
    WeightSumOff(parseNumberArray(weightsInput)) =>
        (scale.kind = "linear" /\ buildErrors)

\* C7: a weight list with a negative weight never yields a piecewise scale.
C7_NegativeWeightRejected ==
    (\E i \in DOMAIN parseNumberArray(weightsInput) :
        parseNumberArray(weightsInput)[i] < 0) => scale.kind = "linear"

\* The least and the greatest element of a non-empty sequence.
MinOf(s) == CHOOSE x \in Range(s) : \A y \in Range(s) : x <= y
MaxOf(s) == CHOOSE x \in Range(s) : \A y \in Range(s) : x >= y

\* The pixel range [padding, totalExtent - padding], reversed for vertical.
PaddedRange ==
    IF orientation = "horizontal"
    THEN <<RInt(scalePadding), RInt(totalExtent - scalePadding)>>
    ELSE <<RInt(totalExtent - scalePadding), RInt(scalePadding)>>

\* C8: with valid breakpoints and a wrong weight count the fallback is the
\* linear scale over [min(breakpoints), max(breakpoints)] on the padded pixel
\* range; with fewer than 2 breakpoints it is the one over [-10, 10].
C8_FallbackDomain ==
    /\ (Len(propMajorTicks) >= 2 /\ StrictlyAscending(propMajorTicks)
        /\ Len(parseNumberArray(weightsInput)) # Len(propMajorTicks) - 1) =>
          /\ scale.kind = "linear"
          /\ scale.domain = <<MinOf(propMajorTicks), MaxOf(propMajorTicks)>>
          /\ scale.range = PaddedRange
    /\ Len(propMajorTicks) < 2 =>
          /\ scale.kind = "linear"
          /\ scale.domain = <<-100, 100>>
          /\ scale.range = PaddedRange

\* C9: breakpoints that are not strictly ascending are flagged by the app and
\* never yield a piecewise scale.
C9_UnsortedRejected ==
    ~StrictlyAscending(parseNumberArray(majorTicksInput)) =>
        (majorTicksError /\ scale.kind = "linear")

\* C10: every rendered tick carries the strongest class of the lists that
\* hold its value: major (length 20, labelled, stroke width 2) before
\* intermediate (length 10, unlabelled) before minor (length 5, unlabelled).
C10_TickPrecedence ==
    \A i \in DOMAIN ticks :
        LET t == ticks[i]
        IN  /\ Includes(propMajorTicks, t.value) =>
                  (t.tickLength = 20 /\ t.label /\ t.strokeWidth = 2)
            /\ (~Includes(propMajorTicks, t.value)
                /\ Includes(propIntermediateTicks, t.value)) =>
                  (t.tickLength = 10 /\ ~t.label)
            /\ (~Includes(propMajorTicks, t.value)
                /\ ~Includes(propIntermediateTicks, t.value)
                /\ Includes(propMinorTicks, t.value)) =>
                  (t.tickLength = 5 /\ ~t.label)

\* C10 witness: a value held by the major and the minor list is drawn as a
\* major tick, and one held by the intermediate and the minor list as an
\* intermediate tick.
C10_Witness ==
    /\ \E i \in DOMAIN ticks :
          /\ Includes(propMajorTicks, ticks[i].value)
          /\ Includes(propMinorTicks, ticks[i].value)
          /\ ticks[i].tickLength = 20
          /\ ticks[i].label
    /\ \E i \in DOMAIN ticks :
          /\ ~Includes(propMajorTicks, ticks[i].value)
          /\ Includes(propIntermediateTicks, ticks[i].value)
          /\ Includes(propMinorTicks, ticks[i].value)
          /\ ticks[i].tickLength = 10

\* The values of the rendered tick groups, in document order.
TickValues == [i \in DOMAIN ticks |-> ticks[i].value]

\* C11: the rendered tick list holds exactly the values of the major, minor
\* and intermediate lists, each once, in strictly ascending order.
C11_TickListIsSortedUnion ==
    /\ StrictlyAscending(TickValues)
    /\ Range(TickValues) = Range(propMajorTicks) \cup Range(propMinorTicks)
                              \cup Range(propIntermediateTicks)

\* C11 witness: the intermediate list repeats 0.5, the minor list holds it
\* too, and 0.5 is drawn once.
C11_Witness ==
    /\ propIntermediateTicks = <<0, 5, 5>>
    /\ Includes(propMinorTicks, 5)
    /\ Cardinality({i \in DOMAIN ticks : ticks[i].value = 5}) = 1
    /\ Len(ticks) > 2

\* C12: the confidence box starts at forward(value) - extent / 2 along the
\* scale axis and is extent = confidenceRangePercent / 100 * effectiveLength
\* long, effectiveLength being the extent minus twice the padding; across the
\* scale it is confidenceBoxCrossDimension wide and centred at half the cross
\* extent; in both orientations.
C12_ConfidenceBox ==
    LET horizontal == orientation = "horizontal"
        extent == Rat(confidenceRangePercent * (totalExtent - 2 * scalePadding),
                      100)
        crossExtent == IF horizontal THEN svgHeight ELSE svgWidth
        alongStart == IF horizontal THEN confidenceBox.x ELSE confidenceBox.y
        alongSize == IF horizontal THEN confidenceBox.width
                     ELSE confidenceBox.height
        crossStart == IF horizontal THEN confidenceBox.y ELSE confidenceBox.x
        crossSize == IF horizontal THEN confidenceBox.height
                     ELSE confidenceBox.width
    IN  /\ alongSize = extent
        /\ alongStart = RSub(scaleApply(scale, currentValue),
                             RMul(extent, Rat(1, 2)))
        /\ crossSize = RInt(confidenceBoxCrossDimension)
        /\ crossStart = RSub(Rat(crossExtent, 2),
                             Rat(confidenceBoxCrossDimension, 2))

\* A value or a confidence percentage changes under a mounted component.
ValueUpdateEvent ==
    /\ lifecycle = "mounted"
    /\ lifecycle' = "mounted"
    /\ currentValue' # currentValue
       \/ confidenceRangePercent' # confidenceRangePercent

\* The configuration and the stored extent stay as they are.
ConfigurationUnchanged ==
    UNCHANGED <<inputVars, orientation, scalePadding, indicatorSize,
                indicatorDistancePercent, svgWidth, svgHeight>>

\* C13: a value-update event (a change of the value and/or of the
\* confidence percentage, from a slider or from the simulation timer) with
\* no configuration or viewport change rebuilds nothing: drawScale and
\* createCustomScale do not run, the scale and the ticks stay, and
\* updateIndicatorAndConfidence runs exactly once.
C13_ValueUpdateNeverRebuilds ==
    [][ValueUpdateEvent /\ ConfigurationUnchanged
         => /\ UNCHANGED drawnVars
            /\ handlerLog' = UpdateTrace]_vars

\* The timer changed the value and the confidence percentage in one firing,
\* and the box was redrawn for them by the one geometry update.
C13_Witness ==
    /\ isSimulationRunning
    /\ timersCreated > 0
    /\ currentValue = 75
    /\ confidenceRangePercent = 15
    /\ handlerLog = UpdateTrace
    /\ indicatorPos = scaleApply(scale, 75)
    /\ confidenceBox.width = confidencePx(scale, 15)

\* A prop of the full-redraw watcher that configures the scale changes, or
\* the stored extent does, under a mounted component.
RebuildEvent ==
    /\ lifecycle = "mounted"
    /\ lifecycle' = "mounted"
    /\ \/ orientation' # orientation
       \/ scalePadding' # scalePadding
       \/ majorTicksInput' # majorTicksInput
       \/ minorTicksInput' # minorTicksInput
       \/ intermediateTicksInput' # intermediateTicksInput
       \/ weightsInput' # weightsInput
       \/ svgWidth' # svgWidth
       \/ svgHeight' # svgHeight

\* What is drawn is what one drawScale draws for the props and the stored
\* extent as they stand: the scale, the ticks placed by it, and the indicator
\* and the confidence box computed against it.
DrawnFromCurrent ==
    /\ scale = currentScale
    /\ ticks = renderTicks(scale, propMajorTicks, propMinorTicks,
                           propIntermediateTicks)
    /\ indicatorPos = scaleApply(scale, currentValue)
    /\ confidenceBox = confidenceBoxOf(scale, props, svgWidth, svgHeight)

\* C14: every change of orientation, padding, tick lists or weights, and
\* every actual change of the stored extent, is handled by a full rebuild
\* before the handler returns: createCustomScale first, the tick list after
\* it, then updateIndicatorAndConfidence exactly once, and what is drawn
\* afterwards is the new scale, its ticks, and the indicator and the
\* confidence box computed against the new scale.
C14_RebuildSequence ==
    /\ [][RebuildEvent
            => handlerLog' \in {Repeat(DrawTrace, n) : n \in 1 .. MaxEntries}]_vars
    /\ [](lifecycle = "mounted"
            /\ handlerLog \in {Repeat(DrawTrace, n) : n \in 1 .. MaxEntries}
          => DrawnFromCurrent)

\* The weights were changed to another valid list and the component was
\* resized: the rebuilds left a custom scale of other segment lengths, with
\* other tick positions, and the indicator stands where the new scale puts
\* the value.
C14_Witness ==
    /\ handlerLog = DrawTrace
    /\ weightsInput = ToTokens(<<200, 200, 100, 100, 200, 200>>)
    /\ svgWidth = 1000
    /\ scale.kind = "custom"
    /\ scale # initialScale
    /\ ticks # renderTicks(initialScale, propMajorTicks, propMinorTicks,
                           propIntermediateTicks)
    /\ indicatorPos = scaleApply(scale, currentValue)
    /\ indicatorPos # scaleApply(initialScale, currentValue)

\* C15: once a handler has completed, the scale is the one built from the
\* current configuration and the currently stored extent, and the ticks drawn
\* are the ticks of that same build: no state after the first build has a
\* scale, a tick set and a stored extent that do not belong together.
C15_ScaleMatchesConfiguration ==
    lifecycle # "setup"
        => /\ scale = currentScale
           /\ ticks = renderTicks(scale, propMajorTicks, propMinorTicks,
                                  propIntermediateTicks)

\* The extent stored when entry i of a notification is handled: the extent
\* stored before the notification for the first entry, the entry before it
\* for every other.
StoredBefore(entries, i) ==
    IF i = 1 THEN <<svgWidth, svgHeight>> ELSE entries[i - 1]

\* The entries of a notification that change the width or the height.
ChangedEntries(entries) ==
    {i \in DOMAIN entries : entries[i] # StoredBefore(entries, i)}

\* The calls of drawScale in a call trace.
DrawScaleCalls(log) ==
    Cardinality({i \in DOMAIN log : log[i] = "drawScale"})

\* C16: a resize notification whose width and height equal the stored
\* extent triggers no rebuild and leaves the stored extent, the scale and the
\* ticks as they are; a notification that changes the width or the height
\* triggers exactly one drawScale per entry that changes it.
C16_ResizeDebounced ==
    [][\A entries \in ResizeNotifications :
          observing /\ resizeCallback(entries)
              => /\ DrawScaleCalls(handlerLog') =
                       Cardinality(ChangedEntries(entries))
                 /\ ChangedEntries(entries) = {}
                       => /\ handlerLog' = <<>>
                          /\ UNCHANGED <<svgWidth, svgHeight, scale, ticks>>
                 /\ ChangedEntries(entries) # {} /\ lifecycle = "mounted"
                       => handlerLog' =
                              Repeat(DrawTrace,
                                     Cardinality(ChangedEntries(entries)))]_vars

\* The component was resized to 1000 x 300 and then notified of the same
\* extent again: the second notification called nothing and the scale is
\* still the one of 1000 x 300.
C16_Witness ==
    /\ lifecycle = "mounted"
    /\ handlerLog = <<>>
    /\ svgWidth = 1000
    /\ svgHeight = 300
    /\ scale = currentScale

\* C17: when the extent read at mount time is zero, no rebuild is performed
\* by the mount: drawScale is not called and no scale is built until a
\* non-zero extent has been reported.
C17_ZeroExtentDefersBuild ==
    [][lifecycle = "setup" /\ lifecycle' = "mounted"
         /\ svgWidth' = 0 /\ svgHeight' = 0
         => /\ scale'.kind = "none"
            /\ DrawScaleCalls(handlerLog') = 0]_vars

\* C18: after the component has been unmounted the observer no longer
\* observes the container, so that no later notification can call
\* drawScale, whatever svgRef.value was when the unmount hook ran.
C18_SubscriptionReleased ==
    lifecycle = "unmounted" => ~observing

\* stopSimulation has returned and no interval has been set since, or the
\* hosting view has been unmounted.
SimulationStopped ==
    simulationInterval = 0 \/ ~appMounted

\* C19: once stopSimulation has returned, or the hosting view has been
\* unmounted, no interval is left active and no step from such a state is a
\* firing of the simulation callback.
C19_Cancellation ==
    /\ [](SimulationStopped => activeTimers = {})
    /\ [][SimulationStopped => ~SimulationTick]_vars

\* The simulation was started, its callback fired (15 percent is a value
\* only the callback sets), and it was stopped by the toggle: no interval
\* is left.
C19_Witness ==
    /\ appMounted
    /\ ~isSimulationRunning
    /\ timersCreated > 0
    /\ confidenceRangePercent = 15
    /\ simulationInterval = 0
    /\ activeTimers = {}
    /\ handlerLog = <<"stopSimulation">>

\* A field of the indicator changes under a mounted component.
IndicatorCheapChange ==
    \/ currentValue' # currentValue
    \/ indicatorColor' # indicatorColor
    \/ indicatorOpacity' # indicatorOpacity

IndicatorShapeChange ==
    \/ indicatorSize' # indicatorSize
    \/ indicatorDistancePercent' # indicatorDistancePercent

C21_EffectiveLengthDefined ==
    /\ scale.effectiveLength = <<totalExtent - 2 * scalePadding>>
    /\ confidencePx(scale, confidenceRangePercent) # NaN
    /\ (IF orientation = "horizontal" THEN confidenceBox.width
        ELSE confidenceBox.height) # NaN

\* C27: with padding <= totalExtent / 2, range() of every scale the builder
\* returns, piecewise or fallback, in either orientation, has the lower pixel
\* coordinate first and the higher one second.
C27_RangeOrder ==
    2 * scalePadding <= totalExtent => RLe(scale.range[1], scale.range[2])

\* The scale the builder returns for the configuration as it stands, in the
\* given orientation, with the same extent along the axis.
scaleIn(orientation_) ==
    createCustomScale(totalExtent, propMajorTicks, propWeights, orientation_,
                      scalePadding)

C30_ErrorFlagsCurrent ==
    /\ weightsSumError = WeightSumOff(parseNumberArray(weightsInput))
    /\ weightsError =
           WeightCountMismatch(parseNumberArray(weightsInput), propMajorTicks)


\* C29: in the hosting view, after any sequence of clicks on the simulation
\* button and on 'Update Scale' and of edits of the major ticks, and before the
\* view is unmounted, at most one interval is active, and isSimulationRunning
\* is true exactly when one is.
C29_OneTimerIffRunning ==
    appMounted =>
        /\ Cardinality(activeTimers) <= 1
        /\ isSimulationRunning <=> activeTimers # {}

\* The simulation was started, stopped, the major ticks were edited, 'Update
\* Scale' was clicked and the simulation runs again on its second interval.
C29_Witness ==
    /\ appMounted
    /\ isSimulationRunning
    /\ timersCreated = 2
    /\ activeTimers = {2}
    /\ majorTicksInput # DefaultMajorTicksInput

\* C24: while the simulation runs, the delay of every active interval is
\* 1000 / simulationFrequency for the frequency as it stands, also after the
\* slider was moved during the run.
C24_PeriodFollowsFrequency ==
    (appMounted /\ isSimulationRunning) =>
        /\ activeTimers # {}
        /\ \A t \in activeTimers :
              timerDelays[t] = intervalMs(simulationFrequency)


\* The pixel an earlier variant's scale gives the breakpoint b.
breakpointPx(sc, b) ==
    IF sc.kind = "linear"
    THEN d3ScaleLinear(sc.domain[1], sc.domain[2], sc.range[1], sc.range[2], b)
    ELSE sc.rangePoints[b]

\* The pixel pos lies at or beyond the pixel edge in the direction in which
\* the scale sc runs from the pixel inner to the pixel edge.
AtOrBeyond(pos, edge, inner) ==
    IF RLe(inner, edge) THEN RLe(edge, pos) ELSE RLe(pos, edge)

\* The value lies outside the scale's domain and its pixel continues the
\* scale past the end it left by.
Extrapolated(sc, value, pos) ==
    /\ value > sc.domain[2] =>
          AtOrBeyond(pos, breakpointPx(sc, sc.domain[2]),
                     breakpointPx(sc, sc.domain[1]))
    /\ value < sc.domain[1] =>
          AtOrBeyond(pos, breakpointPx(sc, sc.domain[1]),
                     breakpointPx(sc, sc.domain[2]))

\* C22: in both earlier variants a value outside the breakpoint range is
\* extrapolated: its pixel is not a special-cased fixed one, it lies at or
\* beyond the pixel of the end of the domain it left by, so that the mapping
\* stays monotonic across the boundary.
C22_OutOfRangeExtrapolated ==
    /\ Extrapolated(variantScales(variantProps).fixed, variantProps.value,
                    variantPos.fixed)
    /\ Extrapolated(variantScales(variantProps).breakpoints,
                    variantProps.value, variantPos.breakpoints)

\* The weights of the weighted form for a percentage triplet, in thousandths:
\* [o/200, m/200, c/200, c/200, m/200, o/200].
tripletWeights(p) ==
    <<5 * p.percentOuter, 5 * p.percentMid, 5 * p.percentCenter,
      5 * p.percentCenter, 5 * p.percentMid, 5 * p.percentOuter>>

\* The weighted scale on the breakpoints -10 .. 10 with the weights of the
\* triplet, for the orientation, padding and extent of the earlier variants.
weightedForTriplet(p) ==
    createCustomScale(IF p.orientation = "horizontal" THEN p.svgWidth
                      ELSE p.svgHeight,
                      FixedBreakpoints, tripletWeights(p), p.orientation,
                      p.scalePadding)

\* C23: for percentages that total 100 and a value in [-10, 10], the scale of
\* the fixed variant and the scale of the domainBreakpoints variant on the
\* breakpoints -10, -5, -1, 0, 1, 5, 10 map the value to the pixel the
\* weighted scale with those breakpoints and the weights
\* [o/200, m/200, c/200, c/200, m/200, o/200] maps it to.
C23_TripletIsWeightedCase ==
    (/\ variantProps.percentCenter + variantProps.percentMid
          + variantProps.percentOuter = 100
     /\ variantProps.domainBreakpoints = FixedBreakpoints
     /\ variantProps.value >= -100
     /\ variantProps.value <= 100)
    => /\ variantPos.fixed
            = scaleApply(weightedForTriplet(variantProps), variantProps.value)
       /\ variantPos.breakpoints
            = scaleApply(weightedForTriplet(variantProps), variantProps.value)

\* A vertical scale with the triplet 20/40/40 and the value 3 inside the mid
\* segment: all three scales put it at the same pixel, which is not the
\* centre.
C23_Witness ==
    /\ variantProps.orientation = "vertical"
    /\ variantProps.scalePadding = 50
    /\ variantProps.percentCenter = 20
    /\ variantProps.percentMid = 40
    /\ variantProps.percentOuter = 40
    /\ variantProps.value = 30
    /\ variantPos.fixed = variantPos.breakpoints
    /\ variantPos.fixed
         = scaleApply(weightedForTriplet(variantProps), variantProps.value)
    /\ variantPos.fixed # scaleApply(weightedForTriplet(variantProps), 0)

\* The breakpoint just below 0 and the breakpoint just above 0.
BelowZero(breakpoints) ==
    MaxOf(SelectSeq(breakpoints, LAMBDA b : b < 0))
AboveZero(breakpoints) ==
    MinOf(SelectSeq(breakpoints, LAMBDA b : b > 0))

\* A 7-point list that contains 0 and a breakpoint on either side of it.
SevenAroundZero(breakpoints) ==
    /\ Len(breakpoints) = 7
    /\ Includes(breakpoints, 0)
    /\ \E i \in DOMAIN breakpoints : breakpoints[i] < 0
    /\ \E i \in DOMAIN breakpoints : breakpoints[i] > 0

InInnermost(breakpoints, v) ==
    BelowZero(breakpoints) <= v /\ v <= AboveZero(breakpoints)

\* C25: the half and small ticks are multiples of 0.1 inside the innermost
\* segment [breakpoint just below 0, breakpoint just above 0] and are not
\* breakpoints; the half ticks are the non-zero multiples of 0.5 among them,
\* the small ticks the others, and no value is in two classes.
C25_SubTicksInsideInnermost ==
    SevenAroundZero(variantProps.domainBreakpoints) =>
        /\ \A v \in Range(variantTicks.halfTicks) :
              /\ InInnermost(variantProps.domainBreakpoints, v)
              /\ ~Includes(variantProps.domainBreakpoints, v)
              /\ v % 5 = 0 /\ v # 0
        /\ \A v \in Range(variantTicks.smallTicks) :
              /\ InInnermost(variantProps.domainBreakpoints, v)
              /\ ~Includes(variantProps.domainBreakpoints, v)
              /\ ~(v % 5 = 0 /\ v # 0)
        /\ Range(variantTicks.halfTicks) \cap Range(variantTicks.smallTicks) = {}
        /\ Range(variantTicks.minorTicks)
             \cap (Range(variantTicks.halfTicks)
                   \cup Range(variantTicks.smallTicks)) = {}

\* C26: for a 7-point list that contains 0, the minor ticks outside the
\* innermost segment are exactly the integers between the smallest and the
\* largest breakpoint that lie outside the innermost segment and are not
\* breakpoints.
C26_MinorTicksAreOuterIntegers ==
    SevenAroundZero(variantProps.domainBreakpoints) =>
        {v \in Range(variantTicks.minorTicks) :
            ~InInnermost(variantProps.domainBreakpoints, v)}
        = {v \in MinOf(variantProps.domainBreakpoints)
                  .. MaxOf(variantProps.domainBreakpoints) :
            /\ v % 10 = 0
            /\ ~Includes(variantProps.domainBreakpoints, v)
            /\ ~InInnermost(variantProps.domainBreakpoints, v)}

============================================================================
